---- MODULE Spec2Model ----
(***************************************************************************)
(* Model of the Indra Python SDK client (sdk/python/indra_sdk/client.py)   *)
(* and of the parameter sweep example built on it                          *)
(* (examples/python/parameter_sweep.py).                                   *)
(*                                                                         *)
(* Python dicts are functions whose domain is the dict's key set.  A JSON  *)
(* value returned by the server is tagged with its JSON type:              *)
(* [t |-> "object", v |-> dict], [t |-> "array", ...], [t |-> "null", ...].*)
(* Blend values are kept in tenths (0.3 is 3).                             *)
(***************************************************************************)
EXTENDS Integers, Sequences, FiniteSets, TLC

VARIABLES
    \* ---- a caller of IndraClient ----
    payload,        \* the caller's payload dict (a mutable object the caller keeps)
    payloadBefore,  \* the contents of that dict when the last call started
    op,             \* the last client operation called
    net,            \* what the transport did for the last call
    sent,           \* the HTTP requests issued by the last call
    outcome,        \* how the last call ended: returned value or raised exception
    \* ---- parameter_sweep.main ----
    pc,             \* position of main()
    idx,            \* index into blends of the current sweep point
    inputExists,    \* INPUT_IMAGE.exists()
    manifestFile,   \* content of MANIFEST_PATH on disk
    manifestOrig,   \* content of MANIFEST_PATH when main() started
    tempFiles,      \* names of the temporary manifests present on disk
    tempCreated,    \* number of temporary manifests created so far
    derived,        \* the document dumped into the current temporary manifest
    csv,            \* rows written to blend_sweep.csv
    renderLog,      \* the client.render calls made by the sweep, in order
    result,         \* local variable result of main()
    pending,        \* exception in flight through the try/finally
    err,            \* exception that left main()
    existsChecks,   \* number of INPUT_IMAGE.exists() evaluations
    healthLog       \* results of the client.health() calls made by the sweep

clientVars == <<payload, payloadBefore, op, net, sent, outcome>>
sweepVars == <<pc, idx, inputExists, manifestFile, manifestOrig, tempFiles,
               tempCreated, derived, csv, renderLog, result, pending, err,
               existsChecks, healthLog>>
vars == <<payload, payloadBefore, op, net, sent, outcome,
          pc, idx, inputExists, manifestFile, manifestOrig, tempFiles,
          tempCreated, derived, csv, renderLog, result, pending, err,
          existsChecks, healthLog>>

----------------------------------------------------------------------------
\* Bounds of the model

\* longest controls.presets list of a manifest
MaxPresets == 2

----------------------------------------------------------------------------
\* Python dict primitives

\* the empty dict {}
EmptyDict == <<>>

\* key in d
HasKey(d, k) == k \in DOMAIN d

\* d[k] = v
DictSet(d, k, v) == [x \in (DOMAIN d) \cup {k} |-> IF x = k THEN v ELSE d[x]]

\* mutant: d[k] = v where setdefault was meant
SetDefault_Overwrite(d, k, v) == DictSet(d, k, v)

\* d.setdefault(k, v): the dict afterwards
SetDefault(d, k, v) == IF HasKey(d, k) THEN d ELSE DictSet(d, k, v)

\* {k: v for k, v in d.items() if k != key}
DictWithout(d, key) == [x \in (DOMAIN d) \ {key} |-> d[x]]

\* tagged JSON values
JObject(d) == [t |-> "object", v |-> d]
JOther(tag) == [t |-> tag, v |-> EmptyDict]

\* how a call ends
Return(v) == [exc |-> "none", msg |-> "", missing |-> <<>>, value |-> v]
Raise(e, m) == [exc |-> e, msg |-> m, missing |-> <<>>, value |-> JOther("null")]
RaiseMissing(operation, keys) ==
    [exc |-> "ValueError", msg |-> operation, missing |-> keys, value |-> JOther("null")]

\* str(x) for the str values a message takes
PyStr(x) == x

----------------------------------------------------------------------------
\* IndraClient

DefaultBitDepth == 8

\* IndraClient._request: one urlopen per call; the body is json.dumps(body)
Request(method, path, hasBody, body, n) ==
    LET req == [method |-> method, path |-> path,
                contentType |-> IF hasBody THEN "application/json" ELSE "",
                hasBody |-> hasBody, body |-> body]
    IN CASE n.kind = "transport" -> [out |-> Raise("URLError", "unreachable"), sent |-> <<req>>]
         [] n.kind = "notjson"   -> [out |-> Raise("JSONDecodeError", "not json"), sent |-> <<req>>]
         [] OTHER                -> [out |-> Return(n.value), sent |-> <<req>>]

\* mutant: only the first required key is looked at
Missing_FirstOnly(p, keys) == SelectSeq(SubSeq(keys, 1, 1), LAMBDA k : ~HasKey(p, k))

\* IndraClient._require_keys: the missing keys, in the order of keys
Missing(p, keys) == SelectSeq(keys, LAMBDA k : ~HasKey(p, k))

\* mutant: a reply without status is taken for a success
ExpectOk_AbsentIsOk(response) ==
    IF response.t # "object"
    THEN Raise("AttributeError", "no attribute get")
    ELSE IF HasKey(response.v, "status") /\ response.v["status"] # "ok"
         THEN Raise("RuntimeError",
                    IF HasKey(response.v, "message")
                    THEN PyStr(response.v["message"])
                    ELSE "Unknown error")
         ELSE Return(JObject(DictWithout(response.v, "status")))

\* IndraClient._expect_ok
ExpectOk(response) ==
    IF response.t # "object"
    THEN Raise("AttributeError", "no attribute get")
    ELSE IF ~(HasKey(response.v, "status") /\ response.v["status"] = "ok")
         THEN Raise("RuntimeError",
                    IF HasKey(response.v, "message")
                    THEN PyStr(response.v["message"])
                    ELSE "Unknown error")
         ELSE Return(JObject(DictWithout(response.v, "status")))

\* the tail shared by the four POST operations: _request, then _expect_ok
Post(path, p, n) ==
    LET r == Request("POST", path, TRUE, p, n)
    IN [out |-> IF r.out.exc # "none" THEN r.out ELSE ExpectOk(r.out.value),
        sent |-> r.sent, payload |-> p]

Rejected(operation, keys, p) ==
    [out |-> RaiseMissing(operation, keys), sent |-> <<>>, payload |-> p]

\* IndraClient.health
Health(n) ==
    LET r == Request("GET", "/health", FALSE, EmptyDict, n)
    IN [out |-> IF r.out.exc # "none" THEN Return(FALSE)
                ELSE IF r.out.value.t # "object"
                     THEN Raise("AttributeError", "no attribute get")
                     ELSE Return(HasKey(r.out.value.v, "status")
                                 /\ r.out.value.v["status"] = "ok"),
        sent |-> r.sent]

\* IndraClient.render
Render(p, n) ==
    LET missing == Missing(p, <<"input", "output">>)
    IN IF missing # <<>>
       THEN Rejected("render", missing, p)
       ELSE Post("/render", SetDefault(p, "bitDepth", DefaultBitDepth), n)

\* IndraClient.simulate
Simulate(p, n) ==
    LET missing == Missing(p, <<"input">>)
    IN IF missing # <<>>
       THEN Rejected("simulate", missing, p)
       ELSE Post("/simulate", p, n)

\* IndraClient.capture
Capture(p, n) ==
    LET missing == Missing(p, <<"input", "output">>)
    IN IF missing # <<>>
       THEN Rejected("capture", missing, p)
       ELSE Post("/capture", p, n)

\* IndraClient.validate_manifest
ValidateManifest(p, n) ==
    IF ~HasKey(p, "manifest") /\ ~HasKey(p, "manifestPath")
    THEN Rejected("validate_manifest", <<"manifest", "manifestPath">>, p)
    ELSE Post("/manifest/validate", p, n)

----------------------------------------------------------------------------
\* The inputs: payloads a caller builds, and what the server may do

PayloadKeys == {"input", "output", "manifest", "manifestPath", "bitDepth"}
DepthValues == {8, 16}

PayloadValue(k) ==
    CASE k = "input" -> "in.png"
      [] k = "output" -> "out.png"
      [] k = "manifest" -> "manifest.json"
      [] k = "manifestPath" -> "path.json"
      [] OTHER -> "x"

Payloads ==
    UNION { IF "bitDepth" \in ks
            THEN { [k \in ks |-> IF k = "bitDepth" THEN b ELSE PayloadValue(k)] : b \in DepthValues }
            ELSE { [k \in ks |-> PayloadValue(k)] }
          : ks \in SUBSET PayloadKeys }

FullMetrics(a) == [indraIndex |-> a, rimMean |-> 2 * a, coherenceMean |-> 3 * a]
MetricsValues == { FullMetrics(1), FullMetrics(2), [indraIndex |-> 1] }

\* JSON objects the server may reply with: any of status, message and
\* metrics present or absent
ReplyObjects ==
    { EmptyDict,
      [message |-> "boom"],
      [metrics |-> FullMetrics(1)],
      [status |-> "error"],
      [status |-> "error", message |-> "boom"],
      [status |-> "error", message |-> "", metrics |-> FullMetrics(1)],
      [status |-> "ok"],
      [status |-> "ok", message |-> "boom"] }
    \cup { [status |-> "ok", metrics |-> m] : m \in MetricsValues }

NetOutcomes ==
    { [kind |-> "transport", value |-> JOther("null")],
      [kind |-> "notjson", value |-> JOther("null")],
      [kind |-> "json", value |-> JOther("array")],
      [kind |-> "json", value |-> JOther("null")] }
    \cup { [kind |-> "json", value |-> JObject(d)] : d \in ReplyObjects }

----------------------------------------------------------------------------
\* A caller of the client: one action per client operation.  The caller
\* passes its dict payload, and keeps that same object after the call.

NoResult == Return(JOther("null"))

CallHealth ==
    \E n \in NetOutcomes :
        LET r == Health(n)
        IN /\ op' = "health"
           /\ payloadBefore' = payload
           /\ payload' = payload
           /\ net' = n
           /\ sent' = r.sent
           /\ outcome' = r.out
           /\ UNCHANGED sweepVars

CallRender ==
    \E n \in NetOutcomes :
        LET r == Render(payload, n)
        IN /\ op' = "render"
           /\ payloadBefore' = payload
           /\ payload' = r.payload
           /\ net' = n
           /\ sent' = r.sent
           /\ outcome' = r.out
           /\ UNCHANGED sweepVars

CallSimulate ==
    \E n \in NetOutcomes :
        LET r == Simulate(payload, n)
        IN /\ op' = "simulate"
           /\ payloadBefore' = payload
           /\ payload' = r.payload
           /\ net' = n
           /\ sent' = r.sent
           /\ outcome' = r.out
           /\ UNCHANGED sweepVars

CallCapture ==
    \E n \in NetOutcomes :
        LET r == Capture(payload, n)
        IN /\ op' = "capture"
           /\ payloadBefore' = payload
           /\ payload' = r.payload
           /\ net' = n
           /\ sent' = r.sent
           /\ outcome' = r.out
           /\ UNCHANGED sweepVars

CallValidateManifest ==
    \E n \in NetOutcomes :
        LET r == ValidateManifest(payload, n)
        IN /\ op' = "validate_manifest"
           /\ payloadBefore' = payload
           /\ payload' = r.payload
           /\ net' = n
           /\ sent' = r.sent
           /\ outcome' = r.out
           /\ UNCHANGED sweepVars

----------------------------------------------------------------------------
\* parameter_sweep: the manifest documents and mutate_manifest

TargetPreset == "balanced-optics"

\* blends = [0.3, 0.4, 0.5, 0.6, 0.7], in tenths
Blends == <<3, 4, 5, 6, 7>>

Header == <<"blend", "indra_index", "rim_mean", "coherence_mean">>

PresetChoices ==
    { [id |-> "balanced-optics",
       panels |-> [compositor |-> [blend |-> 1, gain |-> 2], camera |-> [zoom |-> 2]]],
      [id |-> "balanced-optics", panels |-> [camera |-> [zoom |-> 2]]],
      [id |-> "balanced-optics", label |-> "no panels"],
      [id |-> "other", panels |-> [compositor |-> [blend |-> 9]]],
      [label |-> "no id"] }

PresetLists == UNION { [1..n -> PresetChoices] : n \in 0..MaxPresets }

ManifestDocs ==
    { [version |-> 1], [version |-> 1, controls |-> [theme |-> "dark"]] }
    \cup { [version |-> 1, controls |-> [theme |-> "dark", presets |-> ps]]
           : ps \in PresetLists }

\* mutant: preset["panels"] = {"compositor": {"blend": blend}}
SetBlend_Replace(preset, blend) ==
    DictSet(preset, "panels", [compositor |-> [blend |-> blend]])

\* preset.setdefault("panels", {}).setdefault("compositor", {})["blend"] = blend
SetBlend(preset, blend) ==
    LET panels == IF HasKey(preset, "panels") THEN preset["panels"] ELSE EmptyDict
        comp == IF HasKey(panels, "compositor") THEN panels["compositor"] ELSE EmptyDict
    IN DictSet(preset, "panels",
               DictSet(panels, "compositor", DictSet(comp, "blend", blend)))

\* the loop of mutate_manifest over data.get("controls", {}).get("presets", [])
MutateDoc(data, blend) ==
    IF ~HasKey(data, "controls") THEN data
    ELSE IF ~HasKey(data["controls"], "presets") THEN data
    ELSE LET ps == data["controls"]["presets"]
             qs == [i \in DOMAIN ps |->
                      IF HasKey(ps[i], "id") /\ ps[i]["id"] = TargetPreset
                      THEN SetBlend(ps[i], blend)
                      ELSE ps[i]]
         IN DictSet(data, "controls", DictSet(data["controls"], "presets", qs))

\* the dict literal main() passes to client.render
SweepPayload(blend, temp) ==
    [input |-> "sample-input.png",
     output |-> <<"render", blend>>,
     manifest |-> <<"indra-manifest", temp>>,
     preset |-> TargetPreset]

----------------------------------------------------------------------------
\* parameter_sweep.main, one action per step

\* if not INPUT_IMAGE.exists(): raise FileNotFoundError
CheckInput ==
    /\ pc = "start"
    /\ existsChecks' = existsChecks + 1
    /\ IF inputExists
       THEN pc' = "health" /\ err' = err
       ELSE pc' = "raised" /\ err' = Raise("FileNotFoundError", "Input image missing")
    /\ UNCHANGED <<idx, inputExists, manifestFile, manifestOrig, tempFiles,
                   tempCreated, derived, csv, renderLog, result, pending, healthLog>>
    /\ UNCHANGED clientVars

\* mutant: the result of client.health() is not looked at
CheckHealth_Ignored ==
    /\ pc = "health"
    /\ \E n \in NetOutcomes :
         LET r == Health(n)
         IN /\ healthLog' = Append(healthLog, r.out)
            /\ IF r.out.exc # "none"
               THEN pc' = "raised" /\ err' = r.out
               ELSE pc' = "open" /\ err' = err
    /\ UNCHANGED <<idx, inputExists, manifestFile, manifestOrig, tempFiles,
                   tempCreated, derived, csv, renderLog, result, pending, existsChecks>>
    /\ UNCHANGED clientVars

\* client = IndraClient(); if not client.health(): raise RuntimeError
CheckHealth ==
    /\ pc = "health"
    /\ \E n \in NetOutcomes :
         LET r == Health(n)
         IN /\ healthLog' = Append(healthLog, r.out)
            /\ IF r.out.exc # "none"
               THEN pc' = "raised" /\ err' = r.out
               ELSE IF r.out.value
                    THEN pc' = "open" /\ err' = err
                    ELSE pc' = "raised" /\ err' = Raise("RuntimeError", "not reachable")
    /\ UNCHANGED <<idx, inputExists, manifestFile, manifestOrig, tempFiles,
                   tempCreated, derived, csv, renderLog, result, pending, existsChecks>>
    /\ UNCHANGED clientVars

\* csv_path.open("w"); writer.writerow(rows)
OpenReport ==
    /\ pc = "open"
    /\ csv' = <<Header>>
    /\ idx' = 1
    /\ pc' = "loop"
    /\ UNCHANGED <<inputExists, manifestFile, manifestOrig, tempFiles, tempCreated,
                   derived, renderLog, result, pending, err, existsChecks, healthLog>>
    /\ UNCHANGED clientVars

\* manifest = mutate_manifest(blend), called before the try block.
\* fault "read": read_text or json.loads raises, before the temporary file exists;
\* fault "write": json.dump raises inside the with block, after
\* NamedTemporaryFile(delete=False) created the file.
MutateManifest ==
    /\ pc = "loop"
    /\ idx <= Len(Blends)
    /\ \E fault \in {"none", "read", "write"} :
         CASE fault = "read" ->
                /\ pc' = "raised"
                /\ err' = Raise("OSError", "manifest unreadable")
                /\ UNCHANGED <<tempFiles, tempCreated, derived>>
           [] fault = "write" ->
                /\ tempCreated' = tempCreated + 1
                /\ tempFiles' = tempFiles \cup {tempCreated + 1}
                /\ pc' = "raised"
                /\ err' = Raise("OSError", "write failed")
                /\ UNCHANGED derived
           [] OTHER ->
                /\ tempCreated' = tempCreated + 1
                /\ tempFiles' = tempFiles \cup {tempCreated + 1}
                /\ derived' = MutateDoc(manifestFile, Blends[idx])
                /\ pc' = "try"
                /\ UNCHANGED err
    /\ manifestFile' = manifestFile
    /\ UNCHANGED <<idx, inputExists, manifestOrig, csv, renderLog, result, pending,
                   existsChecks, healthLog>>
    /\ UNCHANGED clientVars

\* result = client.render({...}) inside the try block
RenderPoint ==
    /\ pc = "try"
    /\ \E n \in NetOutcomes :
         LET r == Render(SweepPayload(Blends[idx], tempCreated), n)
         IN /\ renderLog' = Append(renderLog,
                                   [blend |-> Blends[idx], temp |-> tempCreated, out |-> r.out])
            /\ IF r.out.exc = "none"
               THEN result' = r.out.value /\ pc' = "row" /\ pending' = pending
               ELSE result' = result /\ pc' = "finally" /\ pending' = r.out
    /\ UNCHANGED <<idx, inputExists, manifestFile, manifestOrig, tempFiles, tempCreated,
                   derived, csv, err, existsChecks, healthLog>>
    /\ UNCHANGED clientVars

\* mutant: the row is written with two metric columns exchanged
WriteRow_Swapped ==
    /\ pc = "row"
    /\ IF ~HasKey(result.v, "metrics")
       THEN pending' = Raise("KeyError", "metrics") /\ csv' = csv
       ELSE LET metrics == result.v["metrics"]
            IN IF ~HasKey(metrics, "indraIndex")
               THEN pending' = Raise("KeyError", "indraIndex") /\ csv' = csv
               ELSE IF ~HasKey(metrics, "rimMean")
               THEN pending' = Raise("KeyError", "rimMean") /\ csv' = csv
               ELSE IF ~HasKey(metrics, "coherenceMean")
               THEN pending' = Raise("KeyError", "coherenceMean") /\ csv' = csv
               ELSE /\ csv' = Append(csv, <<Blends[idx], metrics["rimMean"],
                                            metrics["indraIndex"], metrics["coherenceMean"]>>)
                    /\ pending' = pending
    /\ pc' = "finally"
    /\ UNCHANGED <<idx, inputExists, manifestFile, manifestOrig, tempFiles, tempCreated,
                   derived, renderLog, result, err, existsChecks, healthLog>>
    /\ UNCHANGED clientVars

\* metrics = result["metrics"]; writer.writerow([blend, metrics[...], ...])
WriteRow ==
    /\ pc = "row"
    /\ IF ~HasKey(result.v, "metrics")
       THEN pending' = Raise("KeyError", "metrics") /\ csv' = csv
       ELSE LET metrics == result.v["metrics"]
            IN IF ~HasKey(metrics, "indraIndex")
               THEN pending' = Raise("KeyError", "indraIndex") /\ csv' = csv
               ELSE IF ~HasKey(metrics, "rimMean")
               THEN pending' = Raise("KeyError", "rimMean") /\ csv' = csv
               ELSE IF ~HasKey(metrics, "coherenceMean")
               THEN pending' = Raise("KeyError", "coherenceMean") /\ csv' = csv
               ELSE /\ csv' = Append(csv, <<Blends[idx], metrics["indraIndex"],
                                            metrics["rimMean"], metrics["coherenceMean"]>>)
                    /\ pending' = pending
    /\ pc' = "finally"
    /\ UNCHANGED <<idx, inputExists, manifestFile, manifestOrig, tempFiles, tempCreated,
                   derived, renderLog, result, err, existsChecks, healthLog>>
    /\ UNCHANGED clientVars

\* mutant: the exception in flight is dropped (except: pass) and the loop goes on
Cleanup_Swallow ==
    /\ pc = "finally"
    /\ tempFiles' = tempFiles \ {tempCreated}
    /\ pc' = "loop" /\ err' = err /\ idx' = idx + 1
    /\ pending' = NoResult
    /\ UNCHANGED <<inputExists, manifestFile, manifestOrig, tempCreated, derived, csv,
                   renderLog, result, existsChecks, healthLog>>
    /\ UNCHANGED clientVars

\* finally: manifest.unlink(missing_ok=True); then the exception in flight
\* leaves main(), or the loop goes on to the next blend
Cleanup ==
    /\ pc = "finally"
    /\ tempFiles' = tempFiles \ {tempCreated}
    /\ IF pending.exc # "none"
       THEN pc' = "raised" /\ err' = pending /\ idx' = idx
       ELSE pc' = "loop" /\ err' = err /\ idx' = idx + 1
    /\ UNCHANGED <<inputExists, manifestFile, manifestOrig, tempCreated, derived, csv,
                   renderLog, result, pending, existsChecks, healthLog>>
    /\ UNCHANGED clientVars

\* the loop is exhausted: the report is closed and main() returns
Finish ==
    /\ pc = "loop"
    /\ idx > Len(Blends)
    /\ pc' = "done"
    /\ UNCHANGED <<idx, inputExists, manifestFile, manifestOrig, tempFiles, tempCreated,
                   derived, csv, renderLog, result, pending, err, existsChecks, healthLog>>
    /\ UNCHANGED clientVars

----------------------------------------------------------------------------
\* Specifications

ClientIdle ==
    /\ op = "none"
    /\ payloadBefore = payload
    /\ net = [kind |-> "none", value |-> JOther("null")]
    /\ sent = <<>>
    /\ outcome = NoResult

SweepStart(started) ==
    /\ pc = IF started THEN "start" ELSE "off"
    /\ idx = 0
    /\ manifestOrig = manifestFile
    /\ tempFiles = {}
    /\ tempCreated = 0
    /\ derived = EmptyDict
    /\ csv = <<>>
    /\ renderLog = <<>>
    /\ result = JOther("null")
    /\ pending = NoResult
    /\ err = NoResult
    /\ existsChecks = 0
    /\ healthLog = <<>>

\* the sweep: main() starts with any manifest on disk, the input image there or not
Init ==
    /\ payload = EmptyDict
    /\ ClientIdle
    /\ inputExists \in BOOLEAN
    /\ manifestFile \in ManifestDocs
    /\ SweepStart(TRUE)

Next ==
    \/ CheckInput
    \/ CheckHealth
    \/ OpenReport
    \/ MutateManifest
    \/ RenderPoint
    \/ WriteRow
    \/ Cleanup
    \/ Finish

Spec == Init /\ [][Next]_vars

\* a caller of the client alone, holding any payload dict
ClientInit ==
    /\ payload \in Payloads
    /\ ClientIdle
    /\ inputExists = FALSE
    /\ manifestFile = [version |-> 1]
    /\ SweepStart(FALSE)

ClientNext ==
    \/ CallHealth
    \/ CallRender
    \/ CallSimulate
    \/ CallCapture
    \/ CallValidateManifest

ClientSpec == ClientInit /\ [][ClientNext]_vars

----------------------------------------------------------------------------
\* Properties of the client (checked under ClientSpec)

NonHealthOps == {"render", "simulate", "capture", "validate_manifest"}

\* the reply is a JSON object whose status is "ok"
ReplyIsOk == /\ net.kind = "json"
             /\ net.value.t = "object"
             /\ HasKey(net.value.v, "status")
             /\ net.value.v["status"] = "ok"

\* the required keys of an operation are not all in the payload
RequiredMissing(o, p) ==
    CASE o \in {"render", "capture"} -> ~({"input", "output"} \subseteq DOMAIN p)
      [] o = "simulate" -> "input" \notin DOMAIN p
      [] o = "validate_manifest" -> "manifest" \notin DOMAIN p /\ "manifestPath" \notin DOMAIN p
      [] OTHER -> FALSE

\* C2: health() never raises; it returns true exactly when the body is a
\* JSON object with status == "ok", and false for every other outcome of the
\* request (transport failure, non-JSON body, JSON that is not an object, ...).
C2_HealthNeverRaises ==
    op = "health" => /\ outcome.exc = "none"
                     /\ outcome.value = ReplyIsOk

\* C3: no client operation mutates the caller's payload: after the call the
\* caller's dict has the key set and values it had before the call.
C3_PayloadNotMutated ==
    op \in NonHealthOps => payload = payloadBefore

\* C4: a call of render, simulate, capture or validate_manifest whose payload
\* misses a required key fails with the validation error (ValueError naming
\* the operation) and issues no HTTP request.
C4_ValidationBeforeNetwork ==
    (op \in NonHealthOps /\ RequiredMissing(op, payloadBefore))
        => /\ outcome.exc = "ValueError"
           /\ outcome.msg = op
           /\ outcome.missing # <<>>
           /\ \A i \in 1..Len(outcome.missing) : ~HasKey(payloadBefore, outcome.missing[i])
           /\ sent = <<>>

C4_Witness ==
    /\ op = "capture"
    /\ HasKey(payloadBefore, "input")
    /\ ~HasKey(payloadBefore, "output")
    /\ outcome.exc = "ValueError"
    /\ sent = <<>>

\* C7: for each of the four non-health operations and every reply object,
\* a status that is absent or not "ok" makes the call raise the remote error
\* (RuntimeError) carrying the reply's message, or "Unknown error" when the
\* reply has none; the reply with status stripped is returned only when
\* status == "ok".  The outcome depends on the reply alone, not on the operation.
C7_RemoteError ==
    /\ (op \in NonHealthOps /\ sent # <<>> /\ net.kind = "json" /\ net.value.t = "object")
          => LET reply == net.value.v
             IN IF ReplyIsOk
                THEN /\ outcome.exc = "none"
                     /\ outcome.value.t = "object"
                     /\ DOMAIN outcome.value.v = (DOMAIN reply) \ {"status"}
                     /\ \A k \in DOMAIN outcome.value.v : outcome.value.v[k] = reply[k]
                ELSE /\ outcome.exc = "RuntimeError"
                     /\ outcome.msg = IF "message" \in DOMAIN reply
                                      THEN reply["message"]
                                      ELSE "Unknown error"
    /\ (op \in NonHealthOps /\ outcome.exc = "none") => ReplyIsOk

C7_Witness ==
    /\ op = "simulate"
    /\ net.kind = "json"
    /\ net.value.t = "object"
    /\ ~HasKey(net.value.v, "status")
    /\ ~HasKey(net.value.v, "message")
    /\ outcome.exc = "RuntimeError"
    /\ outcome.msg = "Unknown error"

\* C10: a render call that passes validation sends exactly one request,
\* POST /render, whose body has bitDepth equal to the payload's own bitDepth
\* when it has one and 8 otherwise, and every other payload key unchanged.
C10_BitDepthSent ==
    (op = "render" /\ {"input", "output"} \subseteq DOMAIN payloadBefore)
        => /\ Len(sent) = 1
           /\ sent[1].method = "POST"
           /\ sent[1].path = "/render"
           /\ sent[1].hasBody
           /\ DOMAIN sent[1].body = (DOMAIN payloadBefore) \cup {"bitDepth"}
           /\ \A k \in DOMAIN payloadBefore : sent[1].body[k] = payloadBefore[k]
           /\ "bitDepth" \notin DOMAIN payloadBefore => sent[1].body["bitDepth"] = 8

C10_Witness ==
    /\ op = "render"
    /\ {"input", "output"} \subseteq DOMAIN payloadBefore
    /\ "bitDepth" \notin DOMAIN payloadBefore
    /\ Len(sent) = 1
    /\ sent[1].body["bitDepth"] = 8

----------------------------------------------------------------------------
\* Properties of the sweep (checked under Spec)

\* main() is between two sweep points, has returned, or has raised
OutsideIteration == pc \in {"loop", "done", "raised"}

\* C1: whenever the sweep has left an iteration (to start the next one, to
\* finish, or to propagate an error) no temporary manifest exists on disk.
C1_NoTempManifestLeft ==
    OutsideIteration => tempFiles = {}

\* the row main() writes for the i-th render call of the sweep
RowOf(i) ==
    LET m == renderLog[i].out.value.v["metrics"]
    IN <<Blends[i], m["indraIndex"], m["rimMean"], m["coherenceMean"]>>

\* C5: if render fails on the k-th sweep point, no render call follows it,
\* the sweep raises that error, and the report is the header followed by
\* exactly the k-1 rows of the preceding points.
C5_FailFast ==
    \A k \in 1..Len(renderLog) :
        renderLog[k].out.exc # "none"
            => /\ k = Len(renderLog)
               /\ renderLog[k].blend = Blends[k]
               /\ pc \in {"finally", "raised"}
               /\ pc = "raised" => err = renderLog[k].out
               /\ Len(csv) = k
               /\ csv[1] = Header
               /\ \A i \in 1..(k - 1) : csv[i + 1] = RowOf(i)

C5_Witness ==
    /\ pc = "raised"
    /\ Len(renderLog) = 2
    /\ renderLog[2].out.exc = "RuntimeError"
    /\ err = renderLog[2].out
    /\ Len(csv) = 2

\* C6 as stated: once all render calls of the sweep were made and succeeded,
\* the report has one data row per parameter value.
C6_AllRendersSucceeded ==
    (/\ pc \in {"done", "raised"}
     /\ Len(renderLog) = Len(Blends)
     /\ \A i \in 1..Len(renderLog) : renderLog[i].out.exc = "none")
        => Len(csv) = Len(Blends) + 1

\* C6, amended: at every state the data rows written so far are, in order,
\* the rows (v, indraIndex, rimMean, coherenceMean) of the first render calls,
\* each made for the parameter value of its position and each successful;
\* when the sweep completes without an error the report has exactly one data
\* row per parameter value.
C6_RowsInSweepOrder ==
    /\ csv # <<>> => csv[1] = Header
    /\ Len(csv) <= Len(renderLog) + 1
    /\ \A i \in 1..(Len(csv) - 1) :
          /\ renderLog[i].blend = Blends[i]
          /\ renderLog[i].out.exc = "none"
          /\ csv[i + 1] = RowOf(i)
    /\ pc = "done" => /\ Len(csv) = Len(Blends) + 1
                      /\ Len(renderLog) = Len(Blends)

C6_Witness ==
    /\ pc = "done"
    /\ Len(csv) = Len(Blends) + 1
    /\ csv[2][1] = 3
    /\ csv[6][1] = 7
    /\ csv[2][2] # csv[3][2]

\* the one health() call of the sweep reported healthy
HealthPassed ==
    /\ Len(healthLog) = 1
    /\ healthLog[1].exc = "none"
    /\ healthLog[1].value

\* C8: the input-asset check and the health check are each made at most
\* once and never again in the loop; a temporary manifest, a render call or
\* a report row exists only after both have passed; a failed check ends the
\* sweep with an error before any temporary manifest or render call.
C8_PreconditionsOnce ==
    /\ existsChecks <= 1
    /\ Len(healthLog) <= 1
    /\ (tempCreated > 0 \/ renderLog # <<>> \/ csv # <<>>)
          => (existsChecks = 1 /\ inputExists /\ HealthPassed)
    /\ pc \in {"open", "loop", "try", "row", "finally", "done"}
          => (existsChecks = 1 /\ inputExists /\ HealthPassed)
    /\ (existsChecks = 1 /\ ~inputExists)
          => (pc = "raised" /\ err.exc = "FileNotFoundError" /\ healthLog = <<>>)
    /\ (Len(healthLog) = 1 /\ ~HealthPassed)
          => (pc = "raised" /\ tempCreated = 0 /\ renderLog = <<>> /\ csv = <<>>)

C8_Witness ==
    /\ pc = "finally"
    /\ idx = 3
    /\ existsChecks = 1
    /\ Len(healthLog) = 1
    /\ tempCreated = 3

\* preset q is preset b with panels.compositor.blend set to v and nothing
\* else changed
OnlyBlendDiffers(b, q, v) ==
    LET bpanels == IF "panels" \in DOMAIN b THEN b["panels"] ELSE EmptyDict
        bcomp == IF "compositor" \in DOMAIN bpanels THEN bpanels["compositor"] ELSE EmptyDict
    IN /\ DOMAIN q = (DOMAIN b) \cup {"panels"}
       /\ \A k \in (DOMAIN b) \ {"panels"} : q[k] = b[k]
       /\ DOMAIN q["panels"] = (DOMAIN bpanels) \cup {"compositor"}
       /\ \A k \in (DOMAIN bpanels) \ {"compositor"} : q["panels"][k] = bpanels[k]
       /\ DOMAIN q["panels"]["compositor"] = (DOMAIN bcomp) \cup {"blend"}
       /\ \A k \in (DOMAIN bcomp) \ {"blend"} : q["panels"]["compositor"][k] = bcomp[k]
       /\ q["panels"]["compositor"]["blend"] = v

IsTarget(preset) == "id" \in DOMAIN preset /\ preset["id"] = "balanced-optics"

\* document d differs from base only in the blend of the target presets
ScopedTo(base, d, v) ==
    IF "controls" \notin DOMAIN base THEN d = base
    ELSE IF "presets" \notin DOMAIN base["controls"] THEN d = base
    ELSE LET bp == base["controls"]["presets"]
         IN /\ DOMAIN d = DOMAIN base
            /\ \A k \in (DOMAIN base) \ {"controls"} : d[k] = base[k]
            /\ DOMAIN d["controls"] = DOMAIN base["controls"]
            /\ \A k \in (DOMAIN base["controls"]) \ {"presets"} :
                  d["controls"][k] = base["controls"][k]
            /\ Len(d["controls"]["presets"]) = Len(bp)
            /\ \A i \in 1..Len(bp) :
                  IF IsTarget(bp[i])
                  THEN OnlyBlendDiffers(bp[i], d["controls"]["presets"][i], v)
                  ELSE d["controls"]["presets"][i] = bp[i]
            /\ (\A i \in 1..Len(bp) : ~IsTarget(bp[i])) => d = base

\* C9: the document written for a sweep point differs from the base manifest
\* only in the blend of the preset "balanced-optics" (set to the point's
\* value); every other preset is unchanged, the document equals the base
\* manifest when no such preset exists, and the manifest file on disk never
\* changes.
C9_MutationScoped ==
    /\ manifestFile = manifestOrig
    /\ pc \in {"try", "row", "finally"} => ScopedTo(manifestOrig, derived, Blends[idx])

C9_Witness ==
    /\ pc = "try"
    /\ idx = 2
    /\ manifestOrig = [version |-> 1,
                       controls |-> [theme |-> "dark",
                                     presets |-> <<[id |-> "balanced-optics",
                                                    panels |-> [camera |-> [zoom |-> 2]]],
                                                   [id |-> "other",
                                                    panels |-> [compositor |-> [blend |-> 9]]]>>]]
    /\ derived["controls"]["presets"][1]["panels"]["compositor"]["blend"] = 4
    /\ derived["controls"]["presets"][2] = manifestOrig["controls"]["presets"][2]

====
